---- MODULE Spec2Model ----
(***************************************************************************)
(* Model of rocketmad/models.py: the six entity queries (Pokemon.get_active,*)
(* Gym.get_gyms, Pokestop.get_pokestops, Weather.get_weather,               *)
(* TrsSpawn.get_spawnpoints, ScannedLocation.get_recent), a client polling  *)
(* them, the projections of get_gyms, get_pokestops and get_spawnpoints,    *)
(* and the retention sweep db_clean_gyms.                                   *)
(*                                                                          *)
(* Units: latitudes and longitudes are in hundredths of a degree, DateTime  *)
(* columns and clock reads are in whole seconds (the columns are DATETIME,  *)
(* a clock read is floored: every comparison below is between a whole       *)
(* number of seconds and a read, so flooring the read keeps its outcome),   *)
(* the request's timestamp is in milliseconds.                              *)
(* Python None and SQL NULL are the empty tuple <<>>, a value x is <<x>>.    *)
(***************************************************************************)
EXTENDS Integers, Sequences, FiniteSets

VARIABLES
    clock,        \* the UTC clock, in seconds
    call,         \* the arguments of the running query, or None
    branch,       \* the branch of its if / elif chain the query took
    result,       \* the rows the query returned
    stored,       \* the rows of the table a call reads (pokemon, gym, pokestop)
    seen,         \* the encounter ids the client's polls have returned
    lastBox,      \* the box of the client's previous poll, or None
    lastSync,     \* the instant of the client's previous poll, in ms
    pc,           \* the position of a call, or of clean_db_loop, in its code
    row,          \* the row of the query's result the loop has taken
    sp,           \* the row (dict) being projected
    utc_offset,   \* fromtimestamp(ts) - utcfromtimestamp(ts), in seconds
    today1,       \* the read of datetime.today() the candidate is built from
    today2,       \* the read of datetime.today() the candidate is compared to
    despawn_time, \* the local variable despawn_time
    full_cleanup_timer, \* clean_db_loop's full_cleanup_timer, or None
    start_timer   \* the start of the last db_cleanup_regular, or None

qvars == <<call, branch, result>>
pvars == <<stored, seen, lastBox, lastSync>>
svars == <<pc, row, sp, utc_offset, today1, today2, despawn_time>>
cvars == <<full_cleanup_timer, start_timer>>
vars == <<clock, qvars, pvars, svars, cvars>>

(*************************** bounds and constants **************************)
\* Latitudes and longitudes of stored rows range over -MaxCoord..MaxCoord.
MaxCoord == 1
\* Stored instants and the clock range over a window of MaxTime seconds.
MaxTime == 2
\* Pokemon ids range over 1..MaxPokemonId.
MaxPokemonId == 2
\* timestamp / 1000: milliseconds to seconds.
MsPerSec == 1000
\* timedelta(minutes=15), in seconds.
ActiveSecs == 900
\* lat_delta = 0.15 and lng_delta = 0.4, in hundredths of a degree.
lat_delta == 15
lng_delta == 40

(****************************** values *************************************)
None == <<>>
Some(x) == <<x>>
Val(v) == v[1]

\* Python truthiness of an argument that is None or a number.
Truthy(v) == v # None /\ Val(v) # 0

\* SQL comparisons of a nullable column with a value: NULL compares to NULL,
\* and a row is kept only when the filter is TRUE.
SqlGe(col, x) == col # None /\ Val(col) >= x

\* column > datetime.utcfromtimestamp(timestamp / 1000), and >= likewise.
AfterTimestamp(col, timestamp) == col # None /\ Val(col) * MsPerSec > timestamp
AtOrAfterTimestamp(col, timestamp) == col # None /\ Val(col) * MsPerSec >= timestamp

(****************************** the tables *********************************)
\* The stored rows a query is checked on: one row of every combination of
\* column values, the same at every call.
Coords == (0 - MaxCoord)..MaxCoord
\* Instants long before the clock's window, and instants in it.
OldTimes == 1..MaxTime
NowTimes == ActiveSecs..(ActiveSecs + MaxTime)
PokemonIds == 1..MaxPokemonId

PokemonRows ==
    [latitude : Coords, longitude : Coords, pokemon_id : PokemonIds,
     disappear_time : NowTimes,
     last_modified : {None} \cup {Some(t) : t \in OldTimes}]

GymRows ==
    [latitude : Coords, longitude : Coords,
     last_scanned : {Some(t) : t \in OldTimes}]

PokestopRows ==
    [latitude : Coords, longitude : Coords,
     last_updated : {None} \cup {Some(t) : t \in OldTimes}]

\* Weather cells lie up to one hundredth beyond the tolerance around a corner.
WeatherLats ==
    {0} \cup UNION {{c - lat_delta - 1, c - lat_delta, c + lat_delta,
                     c + lat_delta + 1} : c \in {0 - 1, 1}}
WeatherLngs ==
    {0} \cup UNION {{c - lng_delta - 1, c - lng_delta, c + lng_delta,
                     c + lng_delta + 1} : c \in {0 - 1, 1}}
WeatherRows ==
    [latitude : WeatherLats, longitude : WeatherLngs,
     last_updated : {None} \cup {Some(t) : t \in OldTimes}]

TrsSpawnRows ==
    [latitude : Coords, longitude : Coords,
     last_scanned : {None} \cup {Some(t) : t \in OldTimes},
     last_non_scanned : {None} \cup {Some(t) : t \in OldTimes}]

ScannedLocationRows ==
    [latitude : Coords, longitude : Coords,
     last_modified : {None} \cup {Some(t) : t \in OldTimes \cup NowTimes}]

(****************************** requests ***********************************)
\* The corners of the viewports the client sends: none of them is 0.
Corners == {0 - 1, 1}
BoxFields == {"swLat", "swLng", "neLat", "neLng"}
NoBox == [f \in BoxFields |-> None]
WideBox == [swLat |-> Some(0 - 1), swLng |-> Some(0 - 1),
            neLat |-> Some(1), neLng |-> Some(1)]
\* Every box with corners in Corners (the inverted ones too), the wide box
\* with one coordinate missing or equal to 0, and no box at all.
Boxes ==
    [BoxFields -> {Some(c) : c \in Corners}]
    \cup {[WideBox EXCEPT ![f] = v] : f \in BoxFields, v \in {None, Some(0)}}
    \cup {NoBox}
Timestamps == {0 - MsPerSec, 0, MsPerSec \div 2, MsPerSec}
IdSets == {{}, {1}, PokemonIds}

Fns == {"get_active", "get_gyms", "get_pokestops", "get_weather",
        "get_spawnpoints", "get_recent"}

\* The arguments of one call, and the clock read (utcnow) of that call.
MkCall(fn, b, o, ts, eids, ids, now) ==
    [fn |-> fn, swLat |-> b.swLat, swLng |-> b.swLng, neLat |-> b.neLat,
     neLng |-> b.neLng, oSwLat |-> o.swLat, oSwLng |-> o.swLng,
     oNeLat |-> o.neLat, oNeLng |-> o.neLng, timestamp |-> ts,
     eids |-> eids, ids |-> ids, now |-> now]

(****************************** the queries ********************************)
\* The if / elif chain every query shares.
Branch(a) ==
    IF ~(Truthy(a.swLat) /\ Truthy(a.swLng) /\ Truthy(a.neLat)
         /\ Truthy(a.neLng))
    THEN "nobox"
    ELSE IF a.timestamp > 0
    THEN "delta"
    ELSE IF Truthy(a.oSwLat) /\ Truthy(a.oSwLng) /\ Truthy(a.oNeLat)
            /\ Truthy(a.oNeLng)
    THEN "panned"
    ELSE "fallback"

\* InBox with the south edge left out (latitude > swLat).
InBoxOpenSouth(r, a) ==
    /\ r.latitude > Val(a.swLat)
    /\ r.longitude >= Val(a.swLng)
    /\ r.latitude <= Val(a.neLat)
    /\ r.longitude <= Val(a.neLng)

\* latitude >= swLat, longitude >= swLng, latitude <= neLat, longitude <= neLng
InBox(r, a) ==
    /\ r.latitude >= Val(a.swLat)
    /\ r.longitude >= Val(a.swLng)
    /\ r.latitude <= Val(a.neLat)
    /\ r.longitude <= Val(a.neLng)

\* and_(latitude >= oSwLat, longitude >= oSwLng, latitude <= oNeLat, ...)
InOldBox(r, a) ==
    /\ r.latitude >= Val(a.oSwLat)
    /\ r.longitude >= Val(a.oSwLng)
    /\ r.latitude <= Val(a.oNeLat)
    /\ r.longitude <= Val(a.oNeLng)

\* IdFilter with the two tests in the other order (ids before eids).
IdFilterIdsFirst(r, a) ==
    IF a.ids # {} THEN r.pokemon_id \in a.ids
    ELSE IF a.eids # {} THEN r.pokemon_id \notin a.eids
    ELSE TRUE

\* if eids: notin_(eids)  elif ids: in_(ids)
IdFilter(r, a) ==
    IF a.eids # {} THEN r.pokemon_id \notin a.eids
    ELSE IF a.ids # {} THEN r.pokemon_id \in a.ids
    ELSE TRUE

\* NotDisappeared with >= for >.
NotDisappearedOrNow(r, a) == r.disappear_time >= a.now

\* Pokemon.disappear_time > datetime.utcnow()
NotDisappeared(r, a) == r.disappear_time > a.now

get_active(tbl, a) ==
    LET b == Branch(a) IN
    {r \in tbl :
        /\ IdFilter(r, a)
        /\ CASE b = "nobox" -> NotDisappeared(r, a)
             [] b = "delta" -> /\ AfterTimestamp(r.last_modified, a.timestamp)
                               /\ NotDisappeared(r, a)
                               /\ InBox(r, a)
             [] b = "panned" -> /\ NotDisappeared(r, a)
                                /\ InBox(r, a)
                                /\ ~InOldBox(r, a)
             [] OTHER -> NotDisappeared(r, a) /\ InBox(r, a)}

get_gyms(tbl, a) ==
    LET b == Branch(a) IN
    {r \in tbl :
        CASE b = "nobox" -> TRUE
          [] b = "delta" -> /\ AfterTimestamp(r.last_scanned, a.timestamp)
                            /\ InBox(r, a)
          [] b = "panned" -> InBox(r, a) /\ ~InOldBox(r, a)
          [] OTHER -> InBox(r, a)}

get_pokestops(tbl, a) ==
    LET b == Branch(a) IN
    {r \in tbl :
        CASE b = "nobox" -> TRUE
          [] b = "delta" -> /\ AfterTimestamp(r.last_updated, a.timestamp)
                            /\ InBox(r, a)
          [] b = "panned" -> InBox(r, a) /\ ~InOldBox(r, a)
          [] OTHER -> InBox(r, a)}

\* The containment test of the other kinds, without the tolerance.
InWeatherBoxNoTolerance(r, a) ==
    /\ r.latitude >= Val(a.swLat)
    /\ r.longitude >= Val(a.swLng)
    /\ r.latitude <= Val(a.neLat)
    /\ r.longitude <= Val(a.neLng)

\* latitude >= float(swLat) - lat_delta, ..., longitude <= float(neLng) + lng_delta
InWeatherBox(r, a) ==
    /\ r.latitude >= Val(a.swLat) - lat_delta
    /\ r.longitude >= Val(a.swLng) - lng_delta
    /\ r.latitude <= Val(a.neLat) + lat_delta
    /\ r.longitude <= Val(a.neLng) + lng_delta

InOldWeatherBox(r, a) ==
    /\ r.latitude >= Val(a.oSwLat) - lat_delta
    /\ r.longitude >= Val(a.oSwLng) - lng_delta
    /\ r.latitude <= Val(a.oNeLat) + lat_delta
    /\ r.longitude <= Val(a.oNeLng) + lng_delta

get_weather(tbl, a) ==
    LET b == Branch(a) IN
    {r \in tbl :
        CASE b = "nobox" -> TRUE
          [] b = "delta" -> /\ AfterTimestamp(r.last_updated, a.timestamp)
                            /\ InWeatherBox(r, a)
          [] b = "panned" -> InWeatherBox(r, a) /\ ~InOldWeatherBox(r, a)
          [] OTHER -> InWeatherBox(r, a)}

get_spawnpoints(tbl, a) ==
    LET b == Branch(a) IN
    {r \in tbl :
        CASE b = "nobox" -> TRUE
          [] b = "delta" ->
               /\ \/ AfterTimestamp(r.last_scanned, a.timestamp)
                  \/ AfterTimestamp(r.last_non_scanned, a.timestamp)
               /\ InBox(r, a)
          [] b = "panned" -> InBox(r, a) /\ ~InOldBox(r, a)
          [] OTHER -> InBox(r, a)}

\* active_time = datetime.utcnow() - timedelta(minutes=15)
active_time(a) == a.now - ActiveSecs

\* get_recent without the 15-minute filter of its last (fallback) branch.
get_recentNoWindowInFallback(tbl, a) ==
    LET b == Branch(a) IN
    {r \in tbl :
        CASE b = "nobox" -> SqlGe(r.last_modified, active_time(a))
          [] b = "delta" ->
               /\ AtOrAfterTimestamp(r.last_modified, a.timestamp)
               /\ InBox(r, a)
          [] b = "panned" -> /\ SqlGe(r.last_modified, active_time(a))
                             /\ InBox(r, a)
                             /\ ~InOldBox(r, a)
          [] OTHER -> InBox(r, a)}

get_recent(tbl, a) ==
    LET b == Branch(a) IN
    {r \in tbl :
        CASE b = "nobox" -> SqlGe(r.last_modified, active_time(a))
          [] b = "delta" ->
               /\ AtOrAfterTimestamp(r.last_modified, a.timestamp)
               /\ InBox(r, a)
          [] b = "panned" -> /\ SqlGe(r.last_modified, active_time(a))
                             /\ InBox(r, a)
                             /\ ~InOldBox(r, a)
          [] OTHER -> SqlGe(r.last_modified, active_time(a)) /\ InBox(r, a)}

\* The table the call a reads, and the rows it returns from it.
TableOf(a) ==
    CASE a.fn = "get_active" -> PokemonRows
      [] a.fn = "get_gyms" -> GymRows
      [] a.fn = "get_pokestops" -> PokestopRows
      [] a.fn = "get_weather" -> WeatherRows
      [] a.fn = "get_spawnpoints" -> TrsSpawnRows
      [] OTHER -> ScannedLocationRows

Query(a) ==
    CASE a.fn = "get_active" -> get_active(PokemonRows, a)
      [] a.fn = "get_gyms" -> get_gyms(GymRows, a)
      [] a.fn = "get_pokestops" -> get_pokestops(PokestopRows, a)
      [] a.fn = "get_weather" -> get_weather(WeatherRows, a)
      [] a.fn = "get_spawnpoints" -> get_spawnpoints(TrsSpawnRows, a)
      [] OTHER -> get_recent(ScannedLocationRows, a)

(****************************** Spec ***************************************)
\* No call of a query has been made, no client polls, no row is projected.
NoCall == call = None /\ branch = None /\ result = {}
NoClient == stored = {} /\ seen = {} /\ lastBox = None /\ lastSync = 0
\* clean_db_loop has not been started.
NoCleanup == full_cleanup_timer = None /\ start_timer = None
NoProjection ==
    /\ pc = "idle" /\ row = None /\ sp = None /\ utc_offset = 0
    /\ today1 = None /\ today2 = None /\ despawn_time = None

Init ==
    /\ clock = ActiveSecs
    /\ NoCall
    /\ NoClient
    /\ NoProjection
    /\ NoCleanup

\* A second passes between two calls.
Tick ==
    /\ call = None
    /\ clock < ActiveSecs + MaxTime
    /\ clock' = clock + 1
    /\ UNCHANGED <<cvars, qvars, pvars, svars>>

\* One call of a query: the arguments, the branch taken, the rows returned.
Call(a) ==
    /\ call' = Some(a)
    /\ branch' = Some(Branch(a))
    /\ result' = Query(a)
    /\ UNCHANGED <<cvars, clock, pvars, svars>>

GetActive ==
    /\ call = None
    /\ \E b \in Boxes, o \in Boxes, ts \in Timestamps, eids \in IdSets,
       ids \in IdSets :
        Call(MkCall("get_active", b, o, ts, eids, ids, clock))

GetOther ==
    /\ call = None
    /\ \E fn \in Fns \ {"get_active"}, b \in Boxes, o \in Boxes,
       ts \in Timestamps :
        Call(MkCall(fn, b, o, ts, {}, {}, clock))

\* The caller has the result; the request is discarded.
Return ==
    /\ call # None
    /\ call' = None
    /\ branch' = None
    /\ result' = {}
    /\ UNCHANGED <<cvars, clock, pvars, svars>>

Next == Tick \/ GetActive \/ GetOther \/ Return

Spec == Init /\ [][Next]_vars

(****************************** PollSpec ***********************************)
\* One client polls get_active while the ingestion process inserts and
\* modifies sightings. The first poll is a fallback query; a later poll passes
\* the box of the previous poll as previousBox, the instant of the previous
\* poll as timestamp, or both, and both when the viewport moved.
MaxStored == 1
EncounterIds == 1..MaxStored
\* The viewports of the client: corners in Corners, south <= north, west <= east.
PollBoxes ==
    {b \in [BoxFields -> {Some(c) : c \in Corners}] :
        Val(b.swLat) <= Val(b.neLat) /\ Val(b.swLng) <= Val(b.neLng)}
LastClock == ActiveSecs + MaxTime

PollInit ==
    /\ clock = ActiveSecs
    /\ NoCall
    /\ NoClient
    /\ NoProjection
    /\ NoCleanup

\* The ingestion process stores a new sighting, modified now.
Ingest ==
    /\ call = None
    /\ \E id \in EncounterIds, lat \in Coords, lng \in Coords,
          d \in {clock + 1, LastClock + 1} :
        /\ \A r \in stored : r.encounter_id # id
        /\ stored' = stored \cup
              {[encounter_id |-> id, latitude |-> lat, longitude |-> lng,
                pokemon_id |-> 1, disappear_time |-> d,
                last_modified |-> Some(clock)]}
    /\ UNCHANGED <<cvars, clock, qvars, seen, lastBox, lastSync, svars>>

\* The ingestion process modifies a stored sighting.
Modify ==
    /\ call = None
    /\ \E r \in stored :
        /\ r.last_modified # Some(clock)
        /\ stored' = (stored \ {r})
                      \cup {[r EXCEPT !.last_modified = Some(clock)]}
    /\ UNCHANGED <<cvars, clock, qvars, seen, lastBox, lastSync, svars>>

\* One poll: the query runs on the stored sightings, the client keeps what it
\* returns and remembers the box and the instant.
Poll(b, o, ts) ==
    LET a == MkCall("get_active", b, o, ts, {}, {}, clock)
        rows == get_active(stored, a)
    IN /\ call' = Some(a)
       /\ branch' = Some(Branch(a))
       /\ result' = rows
       /\ seen' = seen \cup {r.encounter_id : r \in rows}
       /\ lastBox' = Some(b)
       /\ lastSync' = clock * MsPerSec
       /\ UNCHANGED <<cvars, clock, stored, svars>>

FirstPoll ==
    /\ call = None
    /\ lastBox = None
    /\ \E b \in PollBoxes : Poll(b, NoBox, 0)

NextPoll ==
    /\ call = None
    /\ lastBox # None
    /\ \E b \in PollBoxes, sendOld \in BOOLEAN, sendTs \in BOOLEAN :
        /\ sendOld \/ sendTs
        /\ b # Val(lastBox) => (sendOld /\ sendTs)
        /\ Poll(b, IF sendOld THEN Val(lastBox) ELSE NoBox,
                IF sendTs THEN lastSync ELSE 0)

\* The client has the result of its poll.
PollReturn ==
    /\ call # None
    /\ call' = None
    /\ branch' = None
    /\ result' = {}
    /\ UNCHANGED <<cvars, clock, pvars, svars>>

PollNext == Tick \/ Ingest \/ Modify \/ FirstPoll \/ NextPoll \/ PollReturn

PollSpec == PollInit /\ [][PollNext]_vars

(****************************** SpawnSpec **********************************)
\* get_spawnpoints projects one row of its result: the despawn time is derived
\* from the row's end_time "MM:SS" and two reads of the local wall clock,
\* between which time passes.
HourSecs == 3600
MinuteSecs == 60
HalfHourSecs == 1800
\* Strings are sequences of characters.
Digits == {"0", "1", "2", "3", "4", "5", "6", "7", "8", "9"}
DigitVal(c) ==
    CHOOSE n \in 0..9 :
        <<"0", "1", "2", "3", "4", "5", "6", "7", "8", "9">>[n + 1] = c
\* s.split(sep): the parts of s between the separators
RECURSIVE split(_, _)
split(s, sep) ==
    IF \A i \in 1..Len(s) : s[i] # sep
    THEN <<s>>
    ELSE LET i == CHOOSE k \in 1..Len(s) :
                      s[k] = sep /\ \A j \in 1..(k - 1) : s[j] # sep
         IN <<SubSeq(s, 1, i - 1)>> \o split(SubSeq(s, i + 1, Len(s)), sep)
\* int(p) raises ValueError unless p is a non-empty run of digits
IsInt(p) == Len(p) > 0 /\ \A i \in 1..Len(p) : p[i] \in Digits
RECURSIVE int(_)
int(p) ==
    IF Len(p) = 0 THEN 0
    ELSE int(SubSeq(p, 1, Len(p) - 1)) * 10 + DigitVal(p[Len(p)])
\* The calc_endminsec values of the rows: "00:00", "05:30", "59:59", and the
\* values "0530", "05:xx", "60:00", "00:60".
EndTimes ==
    {<<"0", "0", ":", "0", "0">>, <<"0", "5", ":", "3", "0">>,
     <<"5", "9", ":", "5", "9">>, <<"0", "5", "3", "0">>,
     <<"0", "5", ":", "x", "x">>, <<"6", "0", ":", "0", "0">>,
     <<"0", "0", ":", "6", "0">>}
SpawnDefs == {15, 240}
UtcOffsets == {0, HourSecs}
\* The clock starts shortly before an hour boundary or before 00:05:30.
StartClocks == {HourSecs - 1, 2 * HourSecs + 5 * MinuteSecs + 30 - 1}
SpawnClocks == UNION {c..(c + MaxTime) : c \in StartClocks}
SpawnInputs ==
    [end_time : {None} \cup {Some(e) : e \in EndTimes}, spawndef : SpawnDefs,
     last_scanned : {None, Some(HourSecs)},
     last_non_scanned : {None, Some(HourSecs)}]

\* x - utc_offset, for a column that may be NULL
ShiftIfPresent(v, off) == IF v # None THEN Some(Val(v) - off) ELSE v
\* datetime.today(): the local wall clock.
Today == clock + utc_offset
\* t.replace(minute=m, second=s, microsecond=0)
Replace(t, m, s) == (t \div HourSecs) * HourSecs + m * MinuteSecs + s
\* end_time_split[1] raises IndexError, int() raises ValueError, and
\* replace() raises ValueError for a minute or second outside 0..59.
end_time_split(e) == split(e, ":")
end_time_seconds(e) == int(end_time_split(e)[2])
end_time_minutes(e) == int(end_time_split(e)[1])
Raises(e) ==
    \/ Len(end_time_split(e)) < 2
    \/ ~IsInt(end_time_split(e)[2])
    \/ ~IsInt(end_time_split(e)[1])
    \/ end_time_minutes(e) \notin 0..59
    \/ end_time_seconds(e) \notin 0..59
\* sp['despawn_time'] - timedelta(hours=1) or - timedelta(minutes=30)
spawn_timeAlwaysHalfHour(spawndef, d) == d - HalfHourSecs
spawn_time(spawndef, d) ==
    IF spawndef = 15 THEN d - HourSecs ELSE d - HalfHourSecs

SpawnInit ==
    /\ clock \in StartClocks
    /\ NoCall
    /\ NoClient
    /\ NoProjection
    /\ NoCleanup

\* Time passes between two statements of the projection.
SpawnTick ==
    /\ clock + 1 \in SpawnClocks
    /\ clock' = clock + 1
    /\ UNCHANGED <<cvars, qvars, pvars, svars>>

\* utc_offset is computed and the loop takes a row with an end_time:
\* last_non_scanned and last_scanned are shifted, end_time is split, the
\* candidate is built from the first read of datetime.today(); a malformed
\* end_time raises.
Candidate ==
    /\ pc = "idle"
    /\ \E r \in SpawnInputs, off \in UtcOffsets :
        /\ r.end_time # None
        /\ row' = Some(r)
        /\ utc_offset' = off
        /\ sp' = Some([r EXCEPT
                !.last_non_scanned = ShiftIfPresent(@, off),
                !.last_scanned = ShiftIfPresent(@, off)])
        /\ IF Raises(Val(r.end_time))
           THEN /\ today1' = None
                /\ despawn_time' = None
                /\ pc' = "raised"
           ELSE /\ today1' = Some(clock + off)
                /\ despawn_time' =
                      Some(Replace(clock + off,
                                   end_time_minutes(Val(r.end_time)),
                                   end_time_seconds(Val(r.end_time))))
                /\ pc' = "compare"
    /\ today2' = None
    /\ UNCHANGED <<cvars, clock, qvars, pvars>>

\* The loop takes a row without end_time: only last_non_scanned is shifted.
NoEndTime ==
    /\ pc = "idle"
    /\ \E r \in SpawnInputs, off \in UtcOffsets :
        /\ r.end_time = None
        /\ row' = Some(r)
        /\ utc_offset' = off
        /\ sp' = Some([r EXCEPT !.last_non_scanned = ShiftIfPresent(@, off)])
    /\ pc' = "done"
    /\ UNCHANGED <<cvars, clock, qvars, pvars, today1, today2, despawn_time>>

\* if despawn_time <= datetime.today(): despawn_time += timedelta(hours=1)
Compare ==
    /\ pc = "compare"
    /\ today2' = Some(Today)
    /\ despawn_time' = IF Val(despawn_time) <= Today
                        THEN Some(Val(despawn_time) + HourSecs)
                        ELSE despawn_time
    /\ pc' = "emit"
    /\ UNCHANGED <<cvars, clock, qvars, pvars, row, sp, utc_offset, today1>>

\* The row gets despawn_time and spawn_time and loses end_time.
Emit ==
    /\ pc = "emit"
    /\ LET r == Val(sp)
           d == Val(despawn_time) - utc_offset
       IN sp' = Some([last_scanned |-> r.last_scanned,
                      last_non_scanned |-> r.last_non_scanned,
                      spawndef |-> r.spawndef,
                      despawn_time |-> d,
                      spawn_time |-> spawn_time(r.spawndef, d)])
    /\ pc' = "done"
    /\ UNCHANGED <<cvars, clock, qvars, pvars, row, utc_offset, today1, today2,
                   despawn_time>>

\* The row is appended to the result; the loop is ready for another row.
AppendRow ==
    /\ pc = "done"
    /\ pc' = "idle"
    /\ row' = None
    /\ sp' = None
    /\ utc_offset' = 0
    /\ today1' = None
    /\ today2' = None
    /\ despawn_time' = None
    /\ UNCHANGED <<cvars, clock, qvars, pvars>>

\* The exception leaves get_spawnpoints: the call returns no spawn point.
Propagate ==
    /\ pc = "raised"
    /\ pc' = "idle"
    /\ row' = None
    /\ sp' = None
    /\ utc_offset' = 0
    /\ today1' = None
    /\ today2' = None
    /\ despawn_time' = None
    /\ UNCHANGED <<cvars, clock, qvars, pvars>>

SpawnNext ==
    \/ SpawnTick \/ Candidate \/ NoEndTime \/ Compare \/ Emit \/ AppendRow
    \/ Propagate

SpawnSpec == SpawnInit /\ [][SpawnNext]_vars

(****************************** BoxSpec ************************************)
\* The queries are called with malformed boxes: a box or a previous box whose
\* south lies north of its north or whose west lies east of its east, and,
\* for get_weather, boxes whose coordinates are texts, which get_weather
\* converts with float().
CornerBoxes == [BoxFields -> {Some(c) : c \in Corners}]
Inverted(b) ==
    Val(b.swLat) > Val(b.neLat) \/ Val(b.swLng) > Val(b.neLng)
InvertedBoxes == {b \in CornerBoxes : Inverted(b)}
\* The texts "-1", "1", "x" and the empty text.
Texts == {<<"-", "1">>, <<"1">>, <<"x">>, <<>>}
TextBoxes == [BoxFields -> {Some(t) : t \in Texts}]
\* A text is true unless it is empty.
TextTruthy(v) == v # None /\ Len(Val(v)) > 0
\* float(t) raises ValueError unless t is an optional sign and digits.
Unsigned(t) == IF Len(t) > 0 /\ t[1] = "-" THEN Tail(t) ELSE t
FloatRaises(t) == ~IsInt(Unsigned(t))
float(t) == IF t # Unsigned(t) THEN 0 - int(Unsigned(t)) ELSE int(t)
\* The if / elif chain of get_weather on a box of texts.
TextBranch(a) ==
    IF ~(TextTruthy(a.swLat) /\ TextTruthy(a.swLng) /\ TextTruthy(a.neLat)
         /\ TextTruthy(a.neLng))
    THEN "nobox"
    ELSE IF a.timestamp > 0 THEN "delta"
    ELSE IF TextTruthy(a.oSwLat) /\ TextTruthy(a.oSwLng)
            /\ TextTruthy(a.oNeLat) /\ TextTruthy(a.oNeLng)
    THEN "panned"
    ELSE "fallback"
\* The coordinates of the box as float() returns them.
Converted(a) ==
    [a EXCEPT !.swLat = Some(float(Val(@))), !.swLng = Some(float(Val(@))),
              !.neLat = Some(float(Val(@))), !.neLng = Some(float(Val(@)))]

\* A query is called with an inverted box or an inverted previous box.
GetInverted ==
    /\ call = None
    /\ \E fn \in Fns, b \in CornerBoxes, o \in {NoBox} \cup InvertedBoxes,
          ts \in {0, MsPerSec} :
        /\ Inverted(b) \/ o # NoBox
        /\ Call(MkCall(fn, b, o, ts, {}, {}, clock))

\* get_weather is called with a box of texts: it takes a branch of its chain,
\* and a branch with a box converts the coordinates, which raises for "x".
GetWeatherText ==
    /\ call = None
    /\ \E b \in TextBoxes, ts \in {0, MsPerSec} :
        LET a == MkCall("get_weather", b, NoBox, ts, {}, {}, clock) IN
        /\ call' = Some(a)
        /\ branch' = Some(TextBranch(a))
        /\ IF TextBranch(a) = "nobox"
           THEN result' = WeatherRows /\ pc' = "returned"
           ELSE IF \E f \in BoxFields : FloatRaises(Val(a[f]))
           THEN result' = {} /\ pc' = "raised"
           ELSE /\ result' = {r \in WeatherRows :
                                /\ InWeatherBox(r, Converted(a))
                                /\ ts > 0
                                   => AfterTimestamp(r.last_updated, ts)}
                /\ pc' = "returned"
    /\ UNCHANGED <<cvars, clock, pvars, row, sp, utc_offset, today1, today2,
                   despawn_time>>

\* The caller has the result or the exception.
BoxReturn ==
    /\ call # None
    /\ call' = None
    /\ branch' = None
    /\ result' = {}
    /\ pc' = "idle"
    /\ UNCHANGED <<cvars, clock, pvars, row, sp, utc_offset, today1, today2,
                   despawn_time>>

BoxNext == GetInverted \/ GetWeatherText \/ BoxReturn

BoxSpec == Init /\ [][BoxNext]_vars

(****************************** StopSpec ***********************************)
\* get_pokestops with its toggles: the query joins the quest of today, keeps
\* the stops with an event when eventless_stops is off and applies the mode's
\* filter; the projection then reads the clock again and nulls the expired
\* and the unwanted incident and lure fields.
DaySecs == 86400
\* An expiration that the clock of the model passes.
Expirations == {None, Some(ActiveSecs + 1)}
\* The quest_timestamp of the stop's quest row, if it has one: of yesterday or
\* of today.
QuestTimestamps == {0 - 1, 0}
StopRows ==
    [pokestop_id : {1}, latitude : Corners, longitude : {1},
     last_updated : {Some(1)},
     incident_expiration : Expirations, incident_grunt_type : {None, Some(1)},
     lure_expiration : Expirations, active_fort_modifier : {None, Some(1)},
     quest : {None} \cup {Some(t) : t \in QuestTimestamps}]
NorthBox == [WideBox EXCEPT !.swLat = Some(1)]
MkStopCall(b, o, ts, eventless_stops, quests, invasions, lures, now) ==
    [fn |-> "get_pokestops", swLat |-> b.swLat, swLng |-> b.swLng,
     neLat |-> b.neLat, neLng |-> b.neLng, oSwLat |-> o.swLat,
     oSwLng |-> o.swLng, oNeLat |-> o.neLat, oNeLng |-> o.neLng,
     timestamp |-> ts, eventless_stops |-> eventless_stops,
     quests |-> quests, invasions |-> invasions, lures |-> lures, now |-> now]

\* datetime.today().replace(hour=0, minute=0, second=0, microsecond=0)
today_timestamp(now) == (now \div DaySecs) * DaySecs
\* The quest the outer join attaches to the stop r, or None.
JoinedQuest(r, a) ==
    IF a.quests /\ r.quest # None /\ Val(r.quest) >= today_timestamp(a.now)
    THEN r.quest
    ELSE None
\* column > datetime.utcnow(), false for NULL
Unexpired(col, now) == col # None /\ Val(col) > now
\* or_(*terms); with no term there is nothing to filter on.
Terms(r, a) ==
    \/ ~(a.quests \/ a.invasions \/ a.lures)
    \/ a.quests /\ JoinedQuest(r, a) # None
    \/ a.invasions /\ Unexpired(r.incident_expiration, a.now)
    \/ a.lures /\ Unexpired(r.lure_expiration, a.now)
\* query.all(): the pairs (Pokestop, TrsQuest) of the result
StopQuery(tbl, a) ==
    {[pokestop |-> r, quest |-> JoinedQuest(r, a)] :
        r \in {x \in get_pokestops(tbl, a) :
                  a.eventless_stops \/ Terms(x, a)}}
\* The record of one pair, built at the instant now.
SuppressIncident(r, a, now) ==
    r.incident_expiration # None
    /\ (Val(r.incident_expiration) < now \/ ~a.invasions)
SuppressLure(r, a, now) ==
    r.lure_expiration # None /\ (Val(r.lure_expiration) < now \/ ~a.lures)
StopRecord(p, a, now) ==
    LET r == p.pokestop IN
    [pokestop_id |-> r.pokestop_id, latitude |-> r.latitude,
     longitude |-> r.longitude, last_updated |-> r.last_updated,
     quest |-> p.quest,
     incident_grunt_type |->
        IF SuppressIncident(r, a, now) THEN None ELSE r.incident_grunt_type,
     incident_expiration |->
        IF SuppressIncident(r, a, now) THEN None ELSE r.incident_expiration,
     active_fort_modifier |->
        IF SuppressLure(r, a, now) THEN None ELSE r.active_fort_modifier,
     lure_expiration |->
        IF SuppressLure(r, a, now) THEN None ELSE r.lure_expiration]

StopInit ==
    /\ clock = ActiveSecs
    /\ NoCall
    /\ stored \in {{}} \cup {{r} : r \in StopRows}
    /\ seen = {} /\ lastBox = None /\ lastSync = 0
    /\ NoProjection
    /\ NoCleanup

\* A second passes before a call or between the query and the projection.
StopTick ==
    /\ pc \in {"idle", "filtered"}
    /\ clock < LastClock
    /\ clock' = clock + 1
    /\ UNCHANGED <<cvars, qvars, pvars, svars>>

\* The query is built and run.
StopFilter ==
    /\ pc = "idle"
    /\ \E b \in {NoBox, WideBox}, o \in {NoBox, NorthBox},
          ts \in {0, MsPerSec \div 2}, eventless_stops \in BOOLEAN,
          quests \in BOOLEAN, invasions \in BOOLEAN, lures \in BOOLEAN :
        LET a == MkStopCall(b, o, ts, eventless_stops, quests, invasions,
                            lures, clock)
        IN /\ call' = Some(a)
           /\ branch' = Some(Branch(a))
           /\ result' = StopQuery(stored, a)
    /\ pc' = "filtered"
    /\ UNCHANGED <<cvars, clock, pvars, row, sp, utc_offset, today1, today2,
                   despawn_time>>

\* now = datetime.utcnow(); the loop builds the records.
StopProject ==
    /\ pc = "filtered"
    /\ result' = {StopRecord(p, Val(call), clock) : p \in result}
    /\ pc' = "done"
    /\ UNCHANGED <<cvars, clock, call, branch, pvars, row, sp, utc_offset, today1,
                   today2, despawn_time>>

\* The caller has the records.
StopReturn ==
    /\ pc = "done"
    /\ call' = None
    /\ branch' = None
    /\ result' = {}
    /\ pc' = "idle"
    /\ UNCHANGED <<cvars, clock, pvars, row, sp, utc_offset, today1, today2,
                   despawn_time>>

StopNext == StopTick \/ StopFilter \/ StopProject \/ StopReturn

StopSpec == StopInit /\ [][StopNext]_vars

(****************************** GymSpec ************************************)
\* get_gyms with its raids toggle: the query joins the raid of a gym that has
\* not ended, and loads the gym's details row with the gym; the projection
\* copies name and url of the details. db_clean_gyms deletes old details rows
\* and old raids while a call is in progress.
GymIds == {1, 2}
\* The gymdetails row of a gym, if it has one.
Details == {None, Some([name |-> "name", url |-> "url", last_scanned |-> 1])}
\* The end of the raid of a gym, if it has one.
RaidEnds == {None} \cup {Some(t) : t \in (ActiveSecs + 1)..LastClock}
\* Gym 1 lies at the south edge and gym 2 at the north edge of WideBox.
GymsOf(id) ==
    [gym_id : {id}, latitude : {IF id = 1 THEN 0 - 1 ELSE 1}, longitude : {1},
     last_scanned : {Some(t) : t \in OldTimes}, gym_details : Details,
     raid : RaidEnds]
GymTables ==
    {t1 \cup t2 : t1 \in {{}} \cup {{g} : g \in GymsOf(1)},
                  t2 \in {{}} \cup {{g} : g \in GymsOf(2)}}
MkGymCall(b, o, ts, raids, now) ==
    [fn |-> "get_gyms", swLat |-> b.swLat, swLng |-> b.swLng,
     neLat |-> b.neLat, neLng |-> b.neLng, oSwLat |-> o.swLat,
     oSwLng |-> o.swLng, oNeLat |-> o.neLat, oNeLng |-> o.neLng,
     timestamp |-> ts, raids |-> raids, now |-> now]

\* outerjoin(Raid, and_(Gym.gym_id == Raid.gym_id, Raid.end >= utcnow()))
JoinedRaidOrEnding(g, a) ==
    IF a.raids /\ g.raid # None /\ Val(g.raid) >= a.now THEN g.raid ELSE None
\* outerjoin(Raid, and_(Gym.gym_id == Raid.gym_id, Raid.end > utcnow()))
JoinedRaid(g, a) ==
    IF a.raids /\ g.raid # None /\ Val(g.raid) > a.now THEN g.raid ELSE None
\* query.all(): the pairs (Gym, Raid) of the result, each gym with the details
\* row loaded with it
GymQuery(tbl, a) ==
    {[gym |-> g, raid |-> JoinedRaid(g, a)] : g \in get_gyms(tbl, a)}
\* The record of one pair; gym.gym_details.name raises when there is no
\* details row.
GymRecord(p) ==
    [gym_id |-> p.gym.gym_id, latitude |-> p.gym.latitude,
     longitude |-> p.gym.longitude, last_scanned |-> p.gym.last_scanned,
     name |-> Val(p.gym.gym_details).name, url |-> Val(p.gym.gym_details).url,
     raid |-> p.raid]

GymInit ==
    /\ clock = ActiveSecs
    /\ NoCall
    /\ stored \in GymTables
    /\ seen = {} /\ lastBox = None /\ lastSync = 0
    /\ NoProjection
    /\ NoCleanup

\* A second passes before a call or between the query and the projection.
GymTick ==
    /\ pc \in {"idle", "queried"}
    /\ clock < LastClock
    /\ clock' = clock + 1
    /\ UNCHANGED <<cvars, qvars, pvars, svars>>

\* The retention sweep: the details rows last scanned before the timeout and
\* the raids that ended before it are deleted.
db_clean_gyms ==
    /\ pc \in {"idle", "queried"}
    /\ \E age_hours \in {0, 1} :
        LET gym_info_timeout == clock - age_hours * HourSecs IN
        stored' =
          {[g EXCEPT
              !.gym_details =
                 IF @ # None /\ Val(@).last_scanned < gym_info_timeout
                 THEN None ELSE @,
              !.raid = IF @ # None /\ Val(@) < gym_info_timeout
                       THEN None ELSE @] : g \in stored}
    /\ UNCHANGED <<cvars, clock, qvars, seen, lastBox, lastSync, svars>>

\* The query is built and run.
GymFilter ==
    /\ pc = "idle"
    /\ \E b \in {NoBox, WideBox}, o \in {NoBox, NorthBox},
          ts \in {0, MsPerSec}, raids \in BOOLEAN :
        LET a == MkGymCall(b, o, ts, raids, clock)
        IN /\ call' = Some(a)
           /\ branch' = Some(Branch(a))
           /\ result' = GymQuery(stored, a)
    /\ pc' = "queried"
    /\ UNCHANGED <<cvars, clock, pvars, row, sp, utc_offset, today1, today2,
                   despawn_time>>

\* The loop builds the records, or raises at a gym without details row.
GymProject ==
    /\ pc = "queried"
    /\ IF \E p \in result : p.gym.gym_details = None
       THEN result' = {} /\ pc' = "raised"
       ELSE result' = {GymRecord(p) : p \in result} /\ pc' = "done"
    /\ UNCHANGED <<cvars, clock, call, branch, pvars, row, sp, utc_offset, today1,
                   today2, despawn_time>>

\* The caller has the records or the exception.
GymReturn ==
    /\ pc \in {"done", "raised"}
    /\ call' = None
    /\ branch' = None
    /\ result' = {}
    /\ pc' = "idle"
    /\ UNCHANGED <<cvars, clock, pvars, row, sp, utc_offset, today1, today2,
                   despawn_time>>

GymNext == GymTick \/ db_clean_gyms \/ GymFilter \/ GymProject \/ GymReturn

GymSpec == GymInit /\ [][GymNext]_vars

(****************************** CleanSpec **********************************)
\* clean_db_loop, started once for the life of the process, and the regular
\* cleanup it calls. The statements after its `return` (the `while True`
\* loop with the sleep and the full cleanup) are never executed and have no
\* action here.
\* regular_cleanup_secs = 60 and full_cleanup_secs = 600.
regular_cleanup_secs == 60
full_cleanup_secs == 600
\* The clock runs until the regular and the full cleanup are both overdue.
LastCleanClock == ActiveSecs + full_cleanup_secs + 2 * regular_cleanup_secs
\* The time that passes in one step: one sleep, or one full-cleanup period.
TickSecs == {regular_cleanup_secs, full_cleanup_secs}

\* Pokestop.query.filter(Pokestop.lure_expiration < datetime.utcnow())
\*     .update(dict(lure_expiration=None, active_fort_modifier=None))
db_cleanup_regular(tbl, now) ==
    {IF r.lure_expiration # None /\ Val(r.lure_expiration) < now
     THEN [r EXCEPT !.lure_expiration = None, !.active_fort_modifier = None]
     ELSE r : r \in tbl}

\* The process runs, clean_db_loop is not started; the pokestop table holds
\* a stop.
CleanInit ==
    /\ clock = ActiveSecs
    /\ NoCall
    /\ stored \in {{}} \cup {{r} : r \in StopRows}
    /\ seen = {} /\ lastBox = None /\ lastSync = 0
    /\ NoProjection
    /\ NoCleanup

\* Time passes, whether or not clean_db_loop was started or has ended.
CleanTick ==
    /\ \E d \in TickSecs :
          /\ clock + d <= LastCleanClock
          /\ clock' = clock + d
    /\ UNCHANGED <<qvars, pvars, svars, cvars>>

\* clean_db_loop(app): full_cleanup_timer is set, db_cleanup_regular runs
\* once and the function returns.
clean_db_loop ==
    /\ pc = "idle"
    /\ full_cleanup_timer' = Some(clock)
    /\ start_timer' = Some(clock)
    /\ stored' = db_cleanup_regular(stored, clock)
    /\ pc' = "returned"
    /\ UNCHANGED <<clock, qvars, seen, lastBox, lastSync, row, sp, utc_offset,
                   today1, today2, despawn_time>>

\* clean_db_loop(app) when the UPDATE or the commit of db_cleanup_regular
\* raises: the call is outside the try of the loop, the exception leaves
\* clean_db_loop.
clean_db_loopRaises ==
    /\ pc = "idle"
    /\ full_cleanup_timer' = Some(clock)
    /\ start_timer' = Some(clock)
    /\ pc' = "raised"
    /\ UNCHANGED <<clock, qvars, pvars, row, sp, utc_offset, today1, today2,
                   despawn_time>>

CleanNext == CleanTick \/ clean_db_loop \/ clean_db_loopRaises

CleanSpec == CleanInit /\ [][CleanNext]_vars

(***************************************************************************)
(* The claims about one call (Spec).                                        *)
(***************************************************************************)
\* A coordinate the caller supplied (as a number), and a box of four.
Supplied(v) == v # None
BoxSupplied(a) ==
    Supplied(a.swLat) /\ Supplied(a.swLng) /\ Supplied(a.neLat)
    /\ Supplied(a.neLng)
OldSupplied(a) ==
    Supplied(a.oSwLat) /\ Supplied(a.oSwLng) /\ Supplied(a.oNeLat)
    /\ Supplied(a.oNeLng)
NoOldBox(a) ==
    a.oSwLat = None /\ a.oSwLng = None /\ a.oNeLat = None /\ a.oNeLng = None

\* The position of r lies in the closed rectangle [s, n] x [w, e].
InRect(r, s, w, n, e) ==
    s <= r.latitude /\ r.latitude <= n /\ w <= r.longitude /\ r.longitude <= e
\* r lies inside the box of a, all four edges included (a weather cell: inside
\* the box widened by the tolerance).
Inside(r, a) ==
    IF a.fn = "get_weather"
    THEN InRect(r, Val(a.swLat) - lat_delta, Val(a.swLng) - lng_delta,
                Val(a.neLat) + lat_delta, Val(a.neLng) + lng_delta)
    ELSE InRect(r, Val(a.swLat), Val(a.swLng), Val(a.neLat), Val(a.neLng))
InsideOld(r, a) ==
    IF a.fn = "get_weather"
    THEN InRect(r, Val(a.oSwLat) - lat_delta, Val(a.oSwLng) - lng_delta,
                Val(a.oNeLat) + lat_delta, Val(a.oNeLng) + lng_delta)
    ELSE InRect(r, Val(a.oSwLat), Val(a.oSwLng), Val(a.oNeLat), Val(a.oNeLng))

\* The liveness predicate of the kind: a sighting has not disappeared, a scan
\* cell was modified in the last 15 minutes, the other kinds have none.
Live(r, a) ==
    CASE a.fn = "get_active" -> r.disappear_time > a.now
      [] a.fn = "get_recent" ->
            r.last_modified # None /\ Val(r.last_modified) >= a.now - ActiveSecs
      [] OTHER -> TRUE

\* The last-modification / last-scan instants of r (a spawn point has two).
Instants(r, a) ==
    CASE a.fn = "get_active" -> {r.last_modified}
      [] a.fn = "get_gyms" -> {r.last_scanned}
      [] a.fn = "get_spawnpoints" -> {r.last_scanned, r.last_non_scanned}
      [] a.fn = "get_recent" -> {r.last_modified}
      [] OTHER -> {r.last_updated}
\* The latest instant of r is strictly after the request's timestamp.
StrictlyAfter(r, a) ==
    \E t \in Instants(r, a) : t # None /\ Val(t) * MsPerSec > a.timestamp
\* The latest instant of r is the request's timestamp exactly.
ExactlyAt(r, a) ==
    /\ \E t \in Instants(r, a) : t # None /\ Val(t) * MsPerSec = a.timestamp
    /\ ~StrictlyAfter(r, a)

\* The sighting r passes the kind-id filter of the call as the code applies it.
Wanted(r, a) == a.fn = "get_active" => IdFilter(r, a)

\* C1: the mode is a function of (box present, previousBox fully present,
\* sinceTimestamp > 0), tested in the order no-box, delta, panned, fallback: a
\* call with all four box coordinates supplied never runs as no-box, one with
\* a fully supplied previousBox and no timestamp runs as panned.
ClaimedMode(a) ==
    IF ~BoxSupplied(a) THEN "nobox"
    ELSE IF a.timestamp > 0 THEN "delta"
    ELSE IF OldSupplied(a) THEN "panned"
    ELSE "fallback"
C1_ModeIsFunctionOfPresence ==
    call # None => Val(branch) = ClaimedMode(Val(call))

\* C2: for two boxes with numeric coordinates the panned query returns the
\* rows of the fallback query on the box minus those of the fallback query on
\* previousBox.
FallbackOnBox(a) ==
    [a EXCEPT !.oSwLat = None, !.oSwLng = None, !.oNeLat = None,
              !.oNeLng = None, !.timestamp = 0]
FallbackOnOld(a) ==
    [a EXCEPT !.swLat = a.oSwLat, !.swLng = a.oSwLng, !.neLat = a.oNeLat,
              !.neLng = a.oNeLng, !.oSwLat = None, !.oSwLng = None,
              !.oNeLat = None, !.oNeLng = None, !.timestamp = 0]
C2_PannedIsDifference ==
    (call # None /\ BoxSupplied(Val(call)) /\ OldSupplied(Val(call))
     /\ Val(call).timestamp = 0)
    => result = Query(FallbackOnBox(Val(call))) \ Query(FallbackOnOld(Val(call)))

\* C4: a call with four numeric box coordinates (0 included), no previousBox
\* and no sinceTimestamp returns exactly the live rows inside the box.
C4_FallbackIsGeographic ==
    (call # None /\ BoxSupplied(Val(call)) /\ NoOldBox(Val(call))
     /\ Val(call).timestamp = 0)
    => result = {r \in TableOf(Val(call)) :
                    Inside(r, Val(call)) /\ Live(r, Val(call))
                    /\ Wanted(r, Val(call))}

\* C5: containment includes the four edges, in every mode that tests it and
\* for every kind: a row on an edge of the box (for a weather cell: of the
\* box widened by the tolerance) that passes the other filters of the mode is
\* returned, and a query in the panned mode returns no row on an edge of
\* previousBox.
OnEdge(r, s, w, n, e) ==
    /\ InRect(r, s, w, n, e)
    /\ r.latitude \in {s, n} \/ r.longitude \in {w, e}
OnBoxEdge(r, a) ==
    IF a.fn = "get_weather"
    THEN OnEdge(r, Val(a.swLat) - lat_delta, Val(a.swLng) - lng_delta,
                Val(a.neLat) + lat_delta, Val(a.neLng) + lng_delta)
    ELSE OnEdge(r, Val(a.swLat), Val(a.swLng), Val(a.neLat), Val(a.neLng))
OnOldEdge(r, a) ==
    IF a.fn = "get_weather"
    THEN OnEdge(r, Val(a.oSwLat) - lat_delta, Val(a.oSwLng) - lng_delta,
                Val(a.oNeLat) + lat_delta, Val(a.oNeLng) + lng_delta)
    ELSE OnEdge(r, Val(a.oSwLat), Val(a.oSwLng), Val(a.oNeLat), Val(a.oNeLng))
C5_EdgesAreInside ==
    (call # None /\ branch # Some("nobox"))
    => LET a == Val(call) IN
       /\ \A r \in TableOf(a) :
            ( /\ OnBoxEdge(r, a)
              /\ Live(r, a) /\ Wanted(r, a)
              /\ branch = Some("delta") => StrictlyAfter(r, a)
              /\ branch = Some("panned") => ~InsideOld(r, a) )
            => r \in result
       /\ branch = Some("panned") => \A r \in result : ~OnOldEdge(r, a)
\* A query in the panned mode has returned a row on an edge of the box, and a
\* row inside the box that lies on an edge of previousBox is not returned.
C5_Witness ==
    /\ call # None
    /\ branch = Some("panned")
    /\ \E r \in result : OnBoxEdge(r, Val(call))
    /\ \E r \in TableOf(Val(call)) :
          /\ OnOldEdge(r, Val(call)) /\ Inside(r, Val(call))
          /\ Live(r, Val(call)) /\ Wanted(r, Val(call))
          /\ r \notin result

\* C6: in the delta mode the time filter is strict for every kind: no
\* returned row has its latest instant at the timestamp exactly, and a live
\* row inside the box whose instant is later is returned.
C6_DeltaIsStrict ==
    (call # None /\ branch = Some("delta"))
    => LET a == Val(call) IN
       /\ \A r \in result : ~ExactlyAt(r, a)
       /\ \A r \in TableOf(a) :
            (Inside(r, a) /\ Live(r, a) /\ Wanted(r, a) /\ StrictlyAfter(r, a))
            => r \in result

\* C7: every row a delta query returns satisfies the liveness predicate of
\* its kind, so the delta result is part of the fallback result for the box
\* at the same instant.
C7_DeltaKeepsLiveness ==
    (call # None /\ branch = Some("delta"))
    => /\ \A r \in result : Live(r, Val(call))
       /\ result \subseteq Query(FallbackOnBox(Val(call)))

\* C8: every sighting get_active returns has its disappear_time strictly
\* after the instant of the call, in every mode and under every id filter.
C8_ActiveNotDisappeared ==
    (call # None /\ Val(call).fn = "get_active")
    => \A r \in result : r.disappear_time > Val(call).now
\* get_active has returned sightings in the panned mode under an exclusion
\* set, and a sighting that disappears at the instant of the call, inside the
\* box, outside previousBox and not excluded, is not among them.
C8_Witness ==
    /\ call # None
    /\ Val(call).fn = "get_active"
    /\ branch = Some("panned")
    /\ Val(call).eids # {}
    /\ result # {}
    /\ \E r \in PokemonRows :
          /\ r.disappear_time = Val(call).now
          /\ Inside(r, Val(call)) /\ ~InsideOld(r, Val(call))
          /\ r.pokemon_id \notin Val(call).eids
          /\ r \notin result

\* C9 as stated: with a non-empty inclusion set and a non-empty exclusion set
\* the inclusion set takes priority: the result holds only sightings whose id
\* is in the inclusion set, and is the result of the call without the
\* exclusion set.
C9_InclusionHasPriority ==
    (call # None /\ Val(call).fn = "get_active" /\ Val(call).ids # {}
     /\ Val(call).eids # {})
    => /\ \A r \in result : r.pokemon_id \in Val(call).ids
       /\ result = Query([Val(call) EXCEPT !.eids = {}])

\* C9 as amended: with a non-empty exclusion set no returned sighting has its
\* id in it and the inclusion set is ignored (the result is that of the call
\* without the inclusion set); with a non-empty inclusion set and no exclusion
\* set, exactly the sightings of the unfiltered result whose id is in the
\* inclusion set are returned.
C9_ExclusionHasPriority ==
    (call # None /\ Val(call).fn = "get_active")
    => LET a == Val(call)
           all == Query([a EXCEPT !.eids = {}, !.ids = {}])
       IN /\ a.eids # {}
             => /\ result = {r \in all : r.pokemon_id \notin a.eids}
                /\ result = Query([a EXCEPT !.ids = {}])
          /\ (a.eids = {} /\ a.ids # {})
             => result = {r \in all : r.pokemon_id \in a.ids}
\* get_active has been called with both sets non-empty and has returned a
\* sighting whose id is outside the inclusion set.
C9_Witness ==
    /\ call # None
    /\ Val(call).fn = "get_active"
    /\ Val(call).eids # {} /\ Val(call).ids # {}
    /\ \E r \in result : r.pokemon_id \notin Val(call).ids

\* C14: in every mode with a box get_weather returns exactly the cells that
\* lie at most lat_delta / lng_delta outside the box on each axis (and pass
\* the mode's other tests); in the panned mode previousBox is widened by the
\* same amounts; a cell strictly beyond the tolerance on an axis is not
\* returned.
WithinTolerance(r, s, w, n, e) ==
    /\ s - r.latitude <= lat_delta /\ r.latitude - n <= lat_delta
    /\ w - r.longitude <= lng_delta /\ r.longitude - e <= lng_delta
C14_WeatherTolerance ==
    (call # None /\ Val(call).fn = "get_weather" /\ branch # Some("nobox"))
    => LET a == Val(call) IN
       \A r \in WeatherRows :
          r \in result
          <=> /\ WithinTolerance(r, Val(a.swLat), Val(a.swLng), Val(a.neLat),
                                 Val(a.neLng))
              /\ branch = Some("delta") => StrictlyAfter(r, a)
              /\ branch = Some("panned")
                 => ~WithinTolerance(r, Val(a.oSwLat), Val(a.oSwLng),
                                     Val(a.oNeLat), Val(a.oNeLng))
\* A fallback weather query has returned a cell lying lat_delta south of the
\* box and has not returned the cell one hundredth further south.
C14_Witness ==
    /\ call # None
    /\ Val(call).fn = "get_weather"
    /\ branch = Some("fallback")
    /\ \E r \in result : r.latitude = Val(Val(call).swLat) - lat_delta
    /\ \E r \in WeatherRows :
          /\ r.latitude = Val(Val(call).swLat) - lat_delta - 1
          /\ r.longitude = 0
          /\ r \notin result

(***************************************************************************)
(* The claim about a sequence of polls (PollSpec).                          *)
(***************************************************************************)
\* C3: after every poll of a client that follows the protocol, every stored
\* sighting inside the box of the poll that has not disappeared has been
\* returned by this poll or by an earlier one.
C3_EverySightingReturned ==
    call # None
    => \A r \in stored :
         (Inside(r, Val(call)) /\ Live(r, Val(call)))
         => r.encounter_id \in seen

(***************************************************************************)
(* The claim about the despawn time (SpawnSpec).                            *)
(***************************************************************************)
\* C10: the derived despawn time (before the UTC-offset shift) has minute MM
\* and second SS, is strictly later than now and at most now + 1 hour, where
\* now is the wall clock at the comparison, also when the two reads of the
\* wall clock fall on either side of an hour boundary.
C10_DespawnWithinTheHour ==
    pc = "emit"
    => LET d == Val(despawn_time)
           e == Val(Val(row).end_time)
           now == Val(today2)
       IN /\ d % HourSecs
               = end_time_minutes(e) * MinuteSecs + end_time_seconds(e)
          /\ now < d
          /\ d <= now + HourSecs

\* C11: for a spawn point with a well-formed end_time the emitted spawn_time
\* is the emitted despawn_time minus one hour when spawndef is 15, and minus
\* 30 minutes for every other spawndef.
C11_SpawnTimeFromDespawnTime ==
    (pc = "done" /\ Val(row).end_time # None)
    => Val(sp).spawn_time =
          Val(sp).despawn_time
          - (IF Val(row).spawndef = 15 THEN HourSecs ELSE HalfHourSecs)
\* A spawn point of spawndef 15 has been emitted with its two derived times.
C11_Witness ==
    /\ pc = "done"
    /\ Val(row).end_time # None
    /\ Val(row).spawndef = 15
    /\ Val(sp).spawn_time = Val(sp).despawn_time - HourSecs

\* C12: get_spawnpoints never raises: a spawn point whose end_time is absent
\* or malformed is emitted without despawn_time and spawn_time.
C12_InferenceNeverFails ==
    /\ pc # "raised"
    /\ (pc = "done" /\ (Val(row).end_time = None
                         \/ Raises(Val(Val(row).end_time))))
       => DOMAIN Val(sp) \cap {"despawn_time", "spawn_time"} = {}

\* C17: every non-null absolute time of an emitted spawn point is the stored
\* time with the UTC offset subtracted once, whether or not the spawn point
\* has an end_time.
C17_OneReferenceFrame ==
    pc = "done"
    => /\ Val(sp).last_scanned = ShiftIfPresent(Val(row).last_scanned,
                                                utc_offset)
       /\ Val(sp).last_non_scanned =
             ShiftIfPresent(Val(row).last_non_scanned, utc_offset)
       /\ Val(row).end_time # None
          => Val(sp).despawn_time = Val(despawn_time) - utc_offset

(***************************************************************************)
(* The claim about malformed boxes (BoxSpec).                               *)
(***************************************************************************)
\* C16: no query raises for a malformed box; in the delta, panned and
\* fallback modes a query with an inverted box returns nothing, and in the
\* panned mode an inverted previousBox excludes nothing.
C16_MalformedBoxesAreNotErrors ==
    /\ pc # "raised"
    /\ (pc = "idle" /\ call # None /\ branch # Some("nobox")
        /\ Inverted(Val(call)))
       => result = {}
    /\ (pc = "idle" /\ call # None /\ branch = Some("panned"))
       => result = Query(FallbackOnBox(Val(call)))

(***************************************************************************)
(* The claims about get_pokestops (StopSpec). The records are built at the  *)
(* instant clock; StoredStop is the stored row of a record.                 *)
(***************************************************************************)
StoredStop(rec) == CHOOSE r \in stored : r.pokestop_id = rec.pokestop_id

\* C13: a record whose stored incident_expiration is at or before the instant
\* of the projection has incident_grunt_type and incident_expiration null, in
\* every mode.
C13_ExpiredIncidentIsNull ==
    pc = "done"
    => \A rec \in result :
          (StoredStop(rec).incident_expiration # None
           /\ Val(StoredStop(rec).incident_expiration) <= clock)
          => /\ rec.incident_grunt_type = None
             /\ rec.incident_expiration = None

\* C18: when invasions is off the two incident fields of every record are
\* null, when lures is off the two lure fields are null, whatever is stored;
\* and an incident that is wanted and unexpired is kept whatever the lure is,
\* and the reverse.
C18_SuppressionPerSubFeature ==
    pc = "done"
    => \A rec \in result :
        LET r == StoredStop(rec)
            a == Val(call)
        IN /\ ~a.invasions => /\ rec.incident_grunt_type = None
                              /\ rec.incident_expiration = None
           /\ ~a.lures => /\ rec.active_fort_modifier = None
                          /\ rec.lure_expiration = None
           /\ (a.invasions /\ Unexpired(r.incident_expiration, clock))
              => /\ rec.incident_grunt_type = r.incident_grunt_type
                 /\ rec.incident_expiration = r.incident_expiration
           /\ (a.lures /\ Unexpired(r.lure_expiration, clock))
              => /\ rec.active_fort_modifier = r.active_fort_modifier
                 /\ rec.lure_expiration = r.lure_expiration

\* C19: with eventless_stops off every record has a quest, an incident
\* expiration or a lure expiration, for every combination of the toggles and
\* in every mode.
C19_OnlyStopsWithAnEvent ==
    (pc = "done" /\ ~Val(call).eventless_stops)
    => \A rec \in result :
          \/ rec.quest # None
          \/ rec.incident_expiration # None
          \/ rec.lure_expiration # None

(***************************************************************************)
(* The claims about get_gyms (GymSpec).                                     *)
(***************************************************************************)
\* C15: a query never raises for a missing optional relation, also when the
\* retention sweep deletes related rows during the call: get_gyms completes
\* for a gym without details row or without raid, and the related fields of
\* its record are null.
C15_MissingRelationNeverRaises ==
    /\ pc # "raised"
    /\ pc = "done"
       => \A rec \in result : {"name", "url", "raid"} \subseteq DOMAIN rec

\* C20: the query returns each gym the mode selects once, the same gyms with
\* raids on and raids off; with raids on a gym carries its stored raid exactly
\* when the raid ends strictly after the instant of the query, and no raid
\* otherwise; the projection copies name and url of the details row and the
\* joined raid to the record of the gym.
GymIdsOf(pairs) == {p.gym.gym_id : p \in pairs}
C20_RaidJoin ==
    [][/\ (pc = "idle" /\ pc' = "queried")
          => LET a == Val(call') IN
             /\ GymIdsOf(result') = {g.gym_id : g \in get_gyms(stored, a)}
             /\ GymIdsOf(result')
                  = GymIdsOf(GymQuery(stored, [a EXCEPT !.raids = ~a.raids]))
             /\ Cardinality(result') = Cardinality(GymIdsOf(result'))
             /\ \A p \in result' :
                   /\ p.gym \in stored
                   /\ p.raid # None
                      <=> /\ a.raids
                          /\ p.gym.raid # None
                          /\ Val(p.gym.raid) > a.now
                   /\ p.raid # None => p.raid = p.gym.raid
       /\ (pc = "queried" /\ pc' = "done")
          => /\ Cardinality(result') = Cardinality(result)
             /\ \A p \in result :
                  \E rec \in result' :
                     /\ rec.gym_id = p.gym.gym_id
                     /\ rec.raid = p.raid
                     /\ rec.name = Val(p.gym.gym_details).name
                     /\ rec.url = Val(p.gym.gym_details).url]_vars
\* get_gyms with raids on has returned a gym with its raid and a gym whose
\* raid ended at the instant of the query without it.
C20_Witness ==
    /\ pc = "done"
    /\ Val(call).raids
    /\ Val(call).now = clock
    /\ \E rec \in result : rec.raid # None /\ rec.name = "name"
    /\ \E rec \in result :
          /\ rec.raid = None
          /\ \E g \in stored : g.gym_id = rec.gym_id /\ g.raid = Some(clock)

\* A scan cell last modified more than 15 minutes before the call a.
Stale(r, a) ==
    r.last_modified # None /\ Val(r.last_modified) < a.now - ActiveSecs

\* C21 as stated: get_recent applies the 15-minute filter only when no box
\* is supplied, where it is the only filter; in the delta, panned and
\* fallback modes every cell the geographic (and time) filter keeps is
\* returned, however long ago it was modified.
C21_WindowOnlyWithoutBox ==
    (call # None /\ Val(call).fn = "get_recent")
    => LET a == Val(call) IN
       /\ branch = Some("nobox")
            => result = {r \in ScannedLocationRows : Live(r, a)}
       /\ branch = Some("delta")
            => \A r \in ScannedLocationRows :
                 (Inside(r, a) /\ StrictlyAfter(r, a)) => r \in result
       /\ branch = Some("panned")
            => \A r \in ScannedLocationRows :
                 (Inside(r, a) /\ ~InsideOld(r, a) /\ r.last_modified # None)
                 => r \in result
       /\ branch = Some("fallback")
            => \A r \in ScannedLocationRows :
                 (Inside(r, a) /\ r.last_modified # None) => r \in result

\* C21 as amended: get_recent applies the 15-minute filter in the no-box
\* branch, where it is the only filter, and in the panned and fallback
\* branches, where it is added to the geographic filter; in the delta branch
\* alone no 15-minute filter is applied.
C21_WindowExceptInDelta ==
    (call # None /\ Val(call).fn = "get_recent")
    => LET a == Val(call) IN
       /\ branch = Some("nobox")
            => result = {r \in ScannedLocationRows : Live(r, a)}
       /\ branch = Some("delta")
            => \A r \in ScannedLocationRows :
                 (Inside(r, a) /\ StrictlyAfter(r, a)) => r \in result
       /\ branch = Some("panned")
            => result = {r \in ScannedLocationRows :
                          Inside(r, a) /\ ~InsideOld(r, a) /\ Live(r, a)}
       /\ branch = Some("fallback")
            => result = {r \in ScannedLocationRows :
                          Inside(r, a) /\ Live(r, a)}
\* get_recent has returned cells in the fallback branch, and a cell inside
\* the box that was modified more than 15 minutes before the call is not
\* among them.
C21_Witness ==
    /\ call # None
    /\ Val(call).fn = "get_recent"
    /\ branch = Some("fallback")
    /\ result # {}
    /\ \E r \in ScannedLocationRows :
          Inside(r, Val(call)) /\ Stale(r, Val(call)) /\ r \notin result
\* get_recent has returned, in the delta branch, a cell that was modified
\* more than 15 minutes before the call.
C21_DeltaWitness ==
    /\ call # None
    /\ Val(call).fn = "get_recent"
    /\ branch = Some("delta")
    /\ \E r \in result : Stale(r, Val(call))

(***************************************************************************)
(* The claim about the retention loop (CleanSpec).                         *)
(***************************************************************************)
\* C22: once clean_db_loop is started, for as long as the process runs the
\* regular cleanup is never more than 60 seconds overdue and the full
\* cleanup never more than 10 minutes and one sleep, whatever the clients
\* do, and no failure of a cleanup pass leaves clean_db_loop.
C22_PeriodicRetention ==
    (full_cleanup_timer # None)
    => /\ pc # "raised"
       /\ clock - Val(start_timer) <= regular_cleanup_secs
       /\ clock - Val(full_cleanup_timer)
             <= full_cleanup_secs + regular_cleanup_secs

====
